---- MODULE Spec2Model ----
(***************************************************************************)
(* Model of the expense manager: the currency table (currency.py), the     *)
(* wallet / expense records (models.py) and the ExpenseManager registry    *)
(* with its two reports (manager.py).                                      *)
(*                                                                         *)
(* Amounts are Python floats.  A float is modelled as a radix-10 floating  *)
(* point number <<m, e>> (value m * 10^e) whose mantissa has Prec          *)
(* significant digits and whose every operation rounds half-to-even, so    *)
(* that addition is not associative and x / r * r need not give x back.    *)
(***************************************************************************)
EXTENDS Integers, Sequences, FiniteSets, TLC

\* Significant decimal digits of a float mantissa.
Prec == 3

\* Expenses recorded over all wallets in one run.
MaxExpenses == 2

----------------------------------------------------------------------------
\* Float arithmetic

Abs(n) == IF n < 0 THEN -n ELSE n

RECURSIVE Pow10(_)
Pow10(k) == IF k <= 0 THEN 1 ELSE 10 * Pow10(k - 1)

\* The integer nearest to p / d (d > 0), ties to the even one.
RoundHalfEven(p, d) ==
    LET q == p \div d
        r == p % d
    IN  IF 2 * r < d THEN q
        ELSE IF 2 * r > d THEN q + 1
        ELSE IF q % 2 = 0 THEN q ELSE q + 1

\* The float nearest to (p / d) * 10^e, d > 0, in canonical form: zero is
\* <<0, 0>>, every other mantissa has exactly Prec digits.
RECURSIVE Norm(_, _, _)
Norm(p, d, e) ==
    IF p = 0 THEN <<0, 0>>
    ELSE IF Abs(p) < Pow10(Prec - 1) * d THEN Norm(p * 10, d, e - 1)
    ELSE IF Abs(p) >= Pow10(Prec) * d THEN Norm(p, d * 10, e + 1)
    ELSE LET m == RoundHalfEven(p, d)
         IN  IF Abs(m) = Pow10(Prec) THEN <<m \div 10, e + 1>> ELSE <<m, e>>

\* The float literal m * 10^e.
Flt(m, e) == Norm(m, 1, e)

Zero == Flt(0, 0)

\* x + y: the exact sum, rounded.  An operand more than Prec + 1 decimal
\* places below the other is under a twentieth of the result's last place
\* and rounds away.
FAdd(x, y) ==
    IF x[1] = 0 THEN y
    ELSE IF y[1] = 0 THEN x
    ELSE IF x[2] - y[2] > Prec + 1 THEN x
    ELSE IF y[2] - x[2] > Prec + 1 THEN y
    ELSE LET e == IF x[2] < y[2] THEN x[2] ELSE y[2]
         IN  Norm(x[1] * Pow10(x[2] - e) + y[1] * Pow10(y[2] - e), 1, e)

FNeg(x) == <<-x[1], x[2]>>

FSub(x, y) == FAdd(x, FNeg(y))

FMul(x, y) == Norm(x[1] * y[1], 1, x[2] + y[2])

\* x / y, y # 0.
FDiv(x, y) ==
    IF y[1] < 0 THEN Norm(-x[1], -y[1], x[2] - y[2])
    ELSE Norm(x[1], y[1], x[2] - y[2])

----------------------------------------------------------------------------
\* currency.py

SUPPORTED_CURRENCIES ==
    [USD |-> Flt(10, -1),
     EUR |-> Flt(92, -2),
     GBP |-> Flt(81, -2),
     JPY |-> Flt(1400, -1),
     AUD |-> Flt(15, -1)]

BASE_CURRENCY == "USD"

\* The module's dict is an object: whoever holds a reference to it can
\* change it, and every function of the module reads it when called.
VARIABLES
    table       \* the entries of the dict SUPPORTED_CURRENCIES, as they are now

Ok == "ok"
CurrencyNotSupportedError == "CurrencyNotSupportedError"
WalletExistsError == "WalletExistsError"
WalletNotFoundError == "WalletNotFoundError"

\* What a call that raised hands back.
NoResult == <<>>

validate_currency(currency) ==
    IF currency \notin DOMAIN table
    THEN CurrencyNotSupportedError
    ELSE Ok

\* Variant: equal codes are converted through the base currency too.
convert_NoShortCut(amount, from_currency, to_currency) ==
    IF validate_currency(from_currency) # Ok
    THEN [outcome |-> CurrencyNotSupportedError, value |-> NoResult]
    ELSE IF validate_currency(to_currency) # Ok
    THEN [outcome |-> CurrencyNotSupportedError, value |-> NoResult]
    ELSE LET from_rate == table[from_currency]
             amount_in_base == FDiv(amount, from_rate)
             to_rate == table[to_currency]
         IN  [outcome |-> Ok, value |-> FMul(amount_in_base, to_rate)]

\* Variant: equal codes return before either is validated.
convert_ShortCutFirst(amount, from_currency, to_currency) ==
    IF from_currency = to_currency
    THEN [outcome |-> Ok, value |-> amount]
    ELSE IF validate_currency(from_currency) # Ok
    THEN [outcome |-> CurrencyNotSupportedError, value |-> NoResult]
    ELSE IF validate_currency(to_currency) # Ok
    THEN [outcome |-> CurrencyNotSupportedError, value |-> NoResult]
    ELSE LET from_rate == table[from_currency]
             amount_in_base == FDiv(amount, from_rate)
             to_rate == table[to_currency]
         IN  [outcome |-> Ok, value |-> FMul(amount_in_base, to_rate)]

\* Variant: the amount is multiplied by the target's rate without being
\* divided by the source's first.
convert_SkipsBase(amount, from_currency, to_currency) ==
    IF validate_currency(from_currency) # Ok
    THEN [outcome |-> CurrencyNotSupportedError, value |-> NoResult]
    ELSE IF validate_currency(to_currency) # Ok
    THEN [outcome |-> CurrencyNotSupportedError, value |-> NoResult]
    ELSE IF from_currency = to_currency
    THEN [outcome |-> Ok, value |-> amount]
    ELSE LET to_rate == table[to_currency]
         IN  [outcome |-> Ok, value |-> FMul(amount, to_rate)]

convert(amount, from_currency, to_currency) ==
    IF validate_currency(from_currency) # Ok
    THEN [outcome |-> CurrencyNotSupportedError, value |-> NoResult]
    ELSE IF validate_currency(to_currency) # Ok
    THEN [outcome |-> CurrencyNotSupportedError, value |-> NoResult]
    ELSE IF from_currency = to_currency
    THEN [outcome |-> Ok, value |-> amount]
    ELSE LET from_rate == table[from_currency]
             amount_in_base == FDiv(amount, from_rate)
             to_rate == table[to_currency]
         IN  [outcome |-> Ok, value |-> FMul(amount_in_base, to_rate)]

\* A reference to a dict: whether it is the module's own dict, and its
\* entries.
Dict(shared, items) == [shared |-> shared, items |-> items]

\* Variant: the module's dict itself is returned.
list_supported_currencies_Shared == Dict(TRUE, table)

\* dict(SUPPORTED_CURRENCIES): a new dict with the same entries.
list_supported_currencies == Dict(FALSE, table)

----------------------------------------------------------------------------
\* models.py

Expense(description, amount, category) ==
    [description |-> description, amount |-> amount, category |-> category]

Wallet(name, currency, balance, expenses) ==
    [name |-> name, currency |-> currency, balance |-> balance,
     expenses |-> expenses]

\* Variant: the expense is recorded but the balance is credited.
Wallet_add_expense_Credits(wallet, expense) ==
    [wallet EXCEPT !.expenses = Append(@, expense),
                   !.balance = FAdd(@, expense.amount)]

\* Variant: the expense is put before the recorded ones.
Wallet_add_expense_Prepends(wallet, expense) ==
    [wallet EXCEPT !.expenses = <<expense>> \o @,
                   !.balance = FSub(@, expense.amount)]

Wallet_add_expense(wallet, expense) ==
    [wallet EXCEPT !.expenses = Append(@, expense),
                   !.balance = FSub(@, expense.amount)]

\* sum(): the items added left to right, starting from 0.
RECURSIVE sum(_)
sum(amounts) ==
    IF amounts = <<>> THEN Zero
    ELSE FAdd(sum(SubSeq(amounts, 1, Len(amounts) - 1)), amounts[Len(amounts)])

total_spent(wallet) ==
    sum([i \in DOMAIN wallet.expenses |-> wallet.expenses[i].amount])

----------------------------------------------------------------------------
\* manager.py

\* A name is a sequence of characters; str.lower() maps each one.
LowerChar(c) ==
    CASE c = "P" -> "p"
      [] c = "T" -> "t"
      [] c = "S" -> "s"
      [] OTHER -> c

lower(name) == [i \in DOMAIN name |-> LowerChar(name[i])]

\* An optional argument: None, or the value given.
None == <<>>
Some(v) == <<v>>

\* Python truthiness of an optional string: None and "" are false.
Truthy(opt) == opt # None /\ opt[1] # ""

\* Variant: the currency is validated before the name is looked up.
create_wallet_ValidatesFirst(ws, ord, name, currency, balance) ==
    LET key == lower(name)
    IN  IF validate_currency(currency) # Ok
        THEN [outcome |-> CurrencyNotSupportedError, wallets |-> ws,
              order |-> ord, result |-> NoResult]
        ELSE IF key \in DOMAIN ws
        THEN [outcome |-> WalletExistsError, wallets |-> ws, order |-> ord,
              result |-> NoResult]
        ELSE LET wallet == Wallet(name, currency, balance, <<>>)
             IN  [outcome |-> Ok, wallets |-> (key :> wallet) @@ ws,
                  order |-> Append(ord, key), result |-> wallet]

\* Variant: the wallet is registered before its currency is validated.
create_wallet_RegistersFirst(ws, ord, name, currency, balance) ==
    LET key == lower(name)
        wallet == Wallet(name, currency, balance, <<>>)
    IN  IF key \in DOMAIN ws
        THEN [outcome |-> WalletExistsError, wallets |-> ws, order |-> ord,
              result |-> NoResult]
        ELSE IF validate_currency(currency) # Ok
        THEN [outcome |-> CurrencyNotSupportedError,
              wallets |-> (key :> wallet) @@ ws,
              order |-> Append(ord, key), result |-> NoResult]
        ELSE [outcome |-> Ok, wallets |-> (key :> wallet) @@ ws,
              order |-> Append(ord, key), result |-> wallet]

create_wallet(ws, ord, name, currency, balance) ==
    LET key == lower(name)
    IN  IF key \in DOMAIN ws
        THEN [outcome |-> WalletExistsError, wallets |-> ws, order |-> ord,
              result |-> NoResult]
        ELSE IF validate_currency(currency) # Ok
        THEN [outcome |-> CurrencyNotSupportedError, wallets |-> ws,
              order |-> ord, result |-> NoResult]
        ELSE LET wallet == Wallet(name, currency, balance, <<>>)
             IN  [outcome |-> Ok, wallets |-> (key :> wallet) @@ ws,
                  order |-> Append(ord, key), result |-> wallet]

\* Variant: the name is looked up as given, not lower-cased.
get_wallet_CaseSensitive(ws, name) ==
    LET key == name
    IN  IF key \notin DOMAIN ws
        THEN [outcome |-> WalletNotFoundError, key |-> NoResult]
        ELSE [outcome |-> Ok, key |-> key]

\* The key of the wallet found; the wallet itself is ws[key].
get_wallet(ws, name) ==
    LET key == lower(name)
    IN  IF key \notin DOMAIN ws
        THEN [outcome |-> WalletNotFoundError, key |-> NoResult]
        ELSE [outcome |-> Ok, key |-> key]

list_wallets(ws, ord) == [i \in DOMAIN ord |-> ws[ord[i]]]

\* Variant: an empty category is stored as "uncategorized".
add_expense_DefaultsCategory(ws, wallet_name, description, amount, category) ==
    LET found == get_wallet(ws, wallet_name)
    IN  IF found.outcome # Ok
        THEN [outcome |-> found.outcome, wallets |-> ws, result |-> NoResult]
        ELSE LET expense == Expense(description, amount,
                                    IF category = "" THEN "uncategorized"
                                    ELSE category)
             IN  [outcome |-> Ok,
                  wallets |-> [ws EXCEPT ![found.key] =
                                  Wallet_add_expense(@, expense)],
                  result |-> expense]

add_expense(ws, wallet_name, description, amount, category) ==
    LET found == get_wallet(ws, wallet_name)
    IN  IF found.outcome # Ok
        THEN [outcome |-> found.outcome, wallets |-> ws, result |-> NoResult]
        ELSE LET expense == Expense(description, amount, category)
             IN  [outcome |-> Ok,
                  wallets |-> [ws EXCEPT ![found.key] =
                                  Wallet_add_expense(@, expense)],
                  result |-> expense]

\* Variant: the balances are added up as they are, unconverted.
RECURSIVE dashboard_loop_Unconverted(_, _)
dashboard_loop_Unconverted(listed, target_currency) ==
    IF listed = <<>>
    THEN [outcome |-> Ok, total_balance |-> Zero, total_spent |-> Zero,
          wallets_summary |-> <<>>]
    ELSE LET before == dashboard_loop_Unconverted(SubSeq(listed, 1, Len(listed) - 1),
                                      target_currency)
             wallet == listed[Len(listed)]
             balance_converted ==
                 convert(wallet.balance, wallet.currency, target_currency)
             spent_converted ==
                 convert(total_spent(wallet), wallet.currency, target_currency)
         IN  IF before.outcome # Ok THEN before
             ELSE IF balance_converted.outcome # Ok
             THEN [before EXCEPT !.outcome = balance_converted.outcome]
             ELSE IF spent_converted.outcome # Ok
             THEN [before EXCEPT !.outcome = spent_converted.outcome]
             ELSE [outcome |-> Ok,
                   total_balance |->
                       FAdd(before.total_balance, wallet.balance),
                   total_spent |->
                       FAdd(before.total_spent, spent_converted.value),
                   wallets_summary |->
                       Append(before.wallets_summary,
                              [name |-> wallet.name,
                               currency |-> wallet.currency,
                               balance |-> wallet.balance,
                               balance_in_target |-> balance_converted.value,
                               total_spent |-> total_spent(wallet),
                               total_spent_in_target |->
                                   spent_converted.value])]

\* The loop of consolidated_dashboard over the wallets listed so far.
RECURSIVE dashboard_loop(_, _)
dashboard_loop(listed, target_currency) ==
    IF listed = <<>>
    THEN [outcome |-> Ok, total_balance |-> Zero, total_spent |-> Zero,
          wallets_summary |-> <<>>]
    ELSE LET before == dashboard_loop(SubSeq(listed, 1, Len(listed) - 1),
                                      target_currency)
             wallet == listed[Len(listed)]
             balance_converted ==
                 convert(wallet.balance, wallet.currency, target_currency)
             spent_converted ==
                 convert(total_spent(wallet), wallet.currency, target_currency)
         IN  IF before.outcome # Ok THEN before
             ELSE IF balance_converted.outcome # Ok
             THEN [before EXCEPT !.outcome = balance_converted.outcome]
             ELSE IF spent_converted.outcome # Ok
             THEN [before EXCEPT !.outcome = spent_converted.outcome]
             ELSE [outcome |-> Ok,
                   total_balance |->
                       FAdd(before.total_balance, balance_converted.value),
                   total_spent |->
                       FAdd(before.total_spent, spent_converted.value),
                   wallets_summary |->
                       Append(before.wallets_summary,
                              [name |-> wallet.name,
                               currency |-> wallet.currency,
                               balance |-> wallet.balance,
                               balance_in_target |-> balance_converted.value,
                               total_spent |-> total_spent(wallet),
                               total_spent_in_target |->
                                   spent_converted.value])]

\* Variant: the target is not validated before the loop.
consolidated_dashboard_Unvalidated(ws, ord, target_currency) ==
    LET done == dashboard_loop(list_wallets(ws, ord), target_currency)
    IN  IF done.outcome # Ok
        THEN [outcome |-> done.outcome, result |-> NoResult]
        ELSE [outcome |-> Ok,
              result |->
                  [target_currency |-> target_currency,
                   total_balance |-> done.total_balance,
                   total_spent |-> done.total_spent,
                   net_position |->
                       FSub(done.total_balance, done.total_spent),
                   wallets |-> done.wallets_summary,
                   supported_currencies |-> list_supported_currencies]]

consolidated_dashboard(ws, ord, target_currency) ==
    IF validate_currency(target_currency) # Ok
    THEN [outcome |-> CurrencyNotSupportedError, result |-> NoResult]
    ELSE LET done == dashboard_loop(list_wallets(ws, ord), target_currency)
         IN  IF done.outcome # Ok
             THEN [outcome |-> done.outcome, result |-> NoResult]
             ELSE [outcome |-> Ok,
                   result |->
                       [target_currency |-> target_currency,
                        total_balance |-> done.total_balance,
                        total_spent |-> done.total_spent,
                        net_position |->
                            FSub(done.total_balance, done.total_spent),
                        wallets |-> done.wallets_summary,
                        supported_currencies |-> list_supported_currencies]]

\* Variant: an omitted target defaults to the base currency.
wallet_report_DefaultsToBase(ws, wallet_name, target_currency) ==
    LET found == get_wallet(ws, wallet_name)
    IN  IF found.outcome # Ok
        THEN [outcome |-> found.outcome, result |-> NoResult]
        ELSE
        LET wallet == ws[found.key]
            target == IF Truthy(target_currency) THEN target_currency[1]
                      ELSE BASE_CURRENCY
            balance_in_target == convert(wallet.balance, wallet.currency, target)
            amounts_in_target ==
                [i \in DOMAIN wallet.expenses |->
                    convert(wallet.expenses[i].amount, wallet.currency, target)]
        IN  IF validate_currency(target) # Ok
            THEN [outcome |-> CurrencyNotSupportedError, result |-> NoResult]
            ELSE IF balance_in_target.outcome # Ok
            THEN [outcome |-> balance_in_target.outcome, result |-> NoResult]
            ELSE [outcome |-> Ok,
                  result |->
                      [wallet |-> wallet.name,
                       wallet_currency |-> wallet.currency,
                       balance |-> wallet.balance,
                       balance_in_target |-> balance_in_target.value,
                       expenses |->
                           [i \in DOMAIN wallet.expenses |->
                               [description |-> wallet.expenses[i].description,
                                amount |-> wallet.expenses[i].amount,
                                category |-> wallet.expenses[i].category,
                                amount_in_target |->
                                    amounts_in_target[i].value]],
                       target_currency |-> target]]

wallet_report(ws, wallet_name, target_currency) ==
    LET found == get_wallet(ws, wallet_name)
    IN  IF found.outcome # Ok
        THEN [outcome |-> found.outcome, result |-> NoResult]
        ELSE
        LET wallet == ws[found.key]
            target == IF Truthy(target_currency) THEN target_currency[1]
                      ELSE wallet.currency
            balance_in_target == convert(wallet.balance, wallet.currency, target)
            amounts_in_target ==
                [i \in DOMAIN wallet.expenses |->
                    convert(wallet.expenses[i].amount, wallet.currency, target)]
        IN  IF validate_currency(target) # Ok
            THEN [outcome |-> CurrencyNotSupportedError, result |-> NoResult]
            ELSE IF balance_in_target.outcome # Ok
            THEN [outcome |-> balance_in_target.outcome, result |-> NoResult]
            ELSE [outcome |-> Ok,
                  result |->
                      [wallet |-> wallet.name,
                       wallet_currency |-> wallet.currency,
                       balance |-> wallet.balance,
                       balance_in_target |-> balance_in_target.value,
                       expenses |->
                           [i \in DOMAIN wallet.expenses |->
                               [description |-> wallet.expenses[i].description,
                                amount |-> wallet.expenses[i].amount,
                                category |-> wallet.expenses[i].category,
                                amount_in_target |->
                                    amounts_in_target[i].value]],
                       target_currency |-> target]]

\* asdict(expense)
asdict(expense) ==
    [description |-> expense.description, amount |-> expense.amount,
     category |-> expense.category]

to_dict(ws, ord) ==
    [wallets |->
        [i \in DOMAIN list_wallets(ws, ord) |->
            LET wallet == list_wallets(ws, ord)[i]
            IN  [name |-> wallet.name,
                 currency |-> wallet.currency,
                 balance |-> wallet.balance,
                 expenses |-> [j \in DOMAIN wallet.expenses |->
                                  asdict(wallet.expenses[j])]]]]

\* Variant: the snapshot's expenses are taken off the snapshot's balance.
RECURSIVE init_loop_ReplaysExpenses(_)
init_loop_ReplaysExpenses(listed) ==
    IF listed = <<>> THEN [wallets |-> <<>>, order |-> <<>>]
    ELSE LET before == init_loop_ReplaysExpenses(SubSeq(listed, 1, Len(listed) - 1))
             wallet_data == listed[Len(listed)]
             entries == IF "expenses" \in DOMAIN wallet_data
                        THEN wallet_data.expenses ELSE <<>>
             wallet ==
                 Wallet(wallet_data.name, wallet_data.currency,
                        IF "balance" \in DOMAIN wallet_data
                        THEN wallet_data.balance ELSE Zero,
                        [i \in DOMAIN entries |->
                            Expense(entries[i].description, entries[i].amount,
                                    IF "category" \in DOMAIN entries[i]
                                    THEN entries[i].category
                                    ELSE "uncategorized")])
             key == lower(wallet.name)
             replayed ==
                 [wallet EXCEPT !.balance = FSub(@, total_spent(wallet))]
         IN  [wallets |-> (key :> replayed) @@ before.wallets,
              order |-> IF key \in DOMAIN before.wallets THEN before.order
                        ELSE Append(before.order, key)]

\* Variant: a wallet is registered under its name as written.
RECURSIVE init_loop_KeysAsGiven(_)
init_loop_KeysAsGiven(listed) ==
    IF listed = <<>> THEN [wallets |-> <<>>, order |-> <<>>]
    ELSE LET before == init_loop_KeysAsGiven(SubSeq(listed, 1, Len(listed) - 1))
             wallet_data == listed[Len(listed)]
             entries == IF "expenses" \in DOMAIN wallet_data
                        THEN wallet_data.expenses ELSE <<>>
             wallet ==
                 Wallet(wallet_data.name, wallet_data.currency,
                        IF "balance" \in DOMAIN wallet_data
                        THEN wallet_data.balance ELSE Zero,
                        [i \in DOMAIN entries |->
                            Expense(entries[i].description, entries[i].amount,
                                    IF "category" \in DOMAIN entries[i]
                                    THEN entries[i].category
                                    ELSE "uncategorized")])
             key == wallet.name
         IN  [wallets |-> (key :> wallet) @@ before.wallets,
              order |-> IF key \in DOMAIN before.wallets THEN before.order
                        ELSE Append(before.order, key)]

\* ExpenseManager(data): the registry built from a snapshot.  A wallet
\* entry may lack "balance" and "expenses", an expense entry "category".
RECURSIVE init_loop(_)
init_loop(listed) ==
    IF listed = <<>> THEN [wallets |-> <<>>, order |-> <<>>]
    ELSE LET before == init_loop(SubSeq(listed, 1, Len(listed) - 1))
             wallet_data == listed[Len(listed)]
             entries == IF "expenses" \in DOMAIN wallet_data
                        THEN wallet_data.expenses ELSE <<>>
             wallet ==
                 Wallet(wallet_data.name, wallet_data.currency,
                        IF "balance" \in DOMAIN wallet_data
                        THEN wallet_data.balance ELSE Zero,
                        [i \in DOMAIN entries |->
                            Expense(entries[i].description, entries[i].amount,
                                    IF "category" \in DOMAIN entries[i]
                                    THEN entries[i].category
                                    ELSE "uncategorized")])
             key == lower(wallet.name)
         IN  [wallets |-> (key :> wallet) @@ before.wallets,
              order |-> IF key \in DOMAIN before.wallets THEN before.order
                        ELSE Append(before.order, key)]

ExpenseManager(data) ==
    LET payload == IF data = None THEN [wallets |-> <<>>] ELSE data
    IN  init_loop(IF "wallets" \in DOMAIN payload THEN payload.wallets
                  ELSE <<>>)

----------------------------------------------------------------------------
\* storage.py, sample_data.py, cli.py

\* The data file: absent, or holding the data json.dump wrote.  json.load
\* gives back what json.dump was given: strings, floats (written with
\* repr), lists, and dicts with string keys.
Absent == [exists |-> FALSE]

load_data(file_path) ==
    IF ~file_path.exists THEN [wallets |-> <<>>] ELSE file_path.data

save_data(data) == [exists |-> TRUE, data |-> data]

load_demo_data ==
    [wallets |->
        <<[name |-> <<"P", "e", "r", "s", "o", "n", "a", "l">>,
           currency |-> "USD", balance |-> Flt(1200, 0),
           expenses |->
               <<[description |-> "Rent", amount |-> Flt(700, 0),
                  category |-> "housing"],
                 [description |-> "Groceries", amount |-> Flt(150, 0),
                  category |-> "food"]>>],
          [name |-> <<"T", "r", "a", "v", "e", "l">>,
           currency |-> "EUR", balance |-> Flt(500, 0),
           expenses |->
               <<[description |-> "Flights", amount |-> Flt(200, 0),
                  category |-> "travel"]>>],
          [name |-> <<"S", "a", "v", "i", "n", "g", "s">>,
           currency |-> "JPY", balance |-> Flt(100000, 0),
           expenses |-> <<>>]>>]

\* str.upper() of a currency argument.
upper(code) == IF code = "usd" THEN "USD" ELSE code

\* What a branch of main comes to: the manager as it leaves it, what it
\* prints, and whether it reached _persist.
Branch(outcome, ws, ord, printed, persist) ==
    [outcome |-> outcome, wallets |-> ws, order |-> ord, printed |-> printed,
     persist |-> persist]

\* The if / elif chain of main on the manager it loaded.
main_command(ws, ord, args, demo_mode) ==
    IF args.command = "create-wallet"
    THEN LET r == create_wallet(ws, ord, args.name, args.currency,
                                args.balance)
         IN  IF r.outcome # Ok
             THEN Branch(r.outcome, ws, ord, NoResult, FALSE)
             ELSE Branch(Ok, r.wallets, r.order,
                         [message |-> <<"Wallet created", r.result.name>>],
                         TRUE)
    ELSE IF args.command = "add-expense"
    THEN LET r == add_expense(ws, args.wallet, args.description, args.amount,
                              args.category)
         IN  IF r.outcome # Ok
             THEN Branch(r.outcome, ws, ord, NoResult, FALSE)
             ELSE Branch(Ok, r.wallets, ord,
                         [message |-> <<"Added expense", r.result.description,
                                        args.wallet>>,
                          expense |-> asdict(r.result)],
                         TRUE)
    ELSE IF args.command = "list-wallets"
    THEN Branch(Ok, ws, ord,
                [wallets |->
                    [i \in DOMAIN list_wallets(ws, ord) |->
                        LET wallet == list_wallets(ws, ord)[i]
                        IN  [name |-> wallet.name,
                             currency |-> wallet.currency,
                             balance |-> wallet.balance,
                             expenses |-> Len(wallet.expenses)]]],
                FALSE)
    ELSE IF args.command = "dashboard"
    THEN LET r == consolidated_dashboard(ws, ord, args.currency)
         IN  Branch(r.outcome, ws, ord, r.result, FALSE)
    ELSE IF args.command = "wallet-report"
    THEN LET r == wallet_report(ws, args.wallet, args.currency)
         IN  Branch(r.outcome, ws, ord, r.result, FALSE)
    ELSE IF args.command = "supported-currencies"
    THEN Branch(Ok, ws, ord,
                [supported_currencies |-> list_supported_currencies.items],
                FALSE)
    ELSE LET target == upper(args.currency)
             r == consolidated_dashboard(ws, ord, target)
         IN  IF r.outcome # Ok
             THEN Branch(r.outcome, ws, ord, NoResult, FALSE)
             ELSE Branch(Ok, ws, ord,
                         [preview |->
                             [target_currency |-> target,
                              total_balance |-> r.result.total_balance,
                              total_spent |-> r.result.total_spent,
                              net_position |-> r.result.net_position,
                              using_demo_data |-> demo_mode]],
                         FALSE)

\* Variant: the manager is saved when the command ends, however it ends.
main_PersistsOnExit(file, args) ==
    LET demo_mode == args.command = "preview" /\ args.demo
        manager == IF demo_mode THEN ExpenseManager(load_demo_data)
                   ELSE ExpenseManager(load_data(file))
        exits ==
            {[file |-> save_data(to_dict(done.wallets, done.order)),
              outcome |-> done.outcome,
              printed |-> done.printed,
              read |-> ~demo_mode,
              written |-> TRUE] :
                done \in {main_command(manager.wallets, manager.order, args,
                                       demo_mode)}}
    IN  CHOOSE exit \in exits : TRUE

\* main(argv) on the data file: the file it leaves, how it ended, what it
\* printed, and whether it read and wrote the file: the one exit that the
\* command run on the loaded manager comes to.
main(file, args) ==
    LET demo_mode == args.command = "preview" /\ args.demo
        manager == IF demo_mode THEN ExpenseManager(load_demo_data)
                   ELSE ExpenseManager(load_data(file))
        exits ==
            {[file |-> IF done.persist
                       THEN save_data(to_dict(done.wallets, done.order))
                       ELSE file,
              outcome |-> done.outcome,
              printed |-> done.printed,
              read |-> ~demo_mode,
              written |-> done.persist] :
                done \in {main_command(manager.wallets, manager.order, args,
                                       demo_mode)}}
    IN  CHOOSE exit \in exits : TRUE

----------------------------------------------------------------------------
\* scripts/upload_to_github.py

GitHubAPIError(status) == [type |-> "GitHubAPIError", status |-> status]
RuntimeError == [type |-> "RuntimeError"]

RepoInfo(data, created) ==
    [name |-> data.name, full_name |-> data.full_name,
     clone_url |-> data.clone_url, created |-> created]

\* What _api_request hands back: the parsed body, or GitHubAPIError raised.
ApiOk(body) == [kind |-> "ok", body |-> body]
ApiError(status) == [kind |-> "error", status |-> status]

\* A request as _api_request sends it; a path is its segments.
ApiRequest(method, path, payload) ==
    [method |-> method, path |-> path, payload |-> payload]

\* ensure_repository as called: about to issue its first request.
EnsureFrame(repo, owner, private) ==
    [pc |-> "POST",
     args |-> [repo |-> repo, owner |-> owner, private |-> private],
     resolved_owner |-> NoResult, result |-> NoResult, error |-> NoResult]

\* The request ensure_repository issues where it stands.
ensure_request(frame) ==
    LET args == frame.args
    IN  IF frame.pc = "POST"
        THEN ApiRequest("POST",
                        IF Truthy(args.owner)
                        THEN <<"orgs", args.owner[1], "repos">>
                        ELSE <<"user", "repos">>,
                        [name |-> args.repo, private |-> args.private,
                         auto_init |-> FALSE])
        ELSE IF frame.pc = "GET user"
        THEN ApiRequest("GET", <<"user">>, NoResult)
        ELSE ApiRequest("GET", <<"repos", frame.resolved_owner, args.repo>>,
                        NoResult)

\* Variant: every failure of the POST is taken for "already exists".
ensure_repository_ReusesOnAnyError(frame, response) ==
    LET args == frame.args
    IN  IF frame.pc = "POST"
        THEN IF response.kind = "ok"
             THEN [frame EXCEPT !.pc = "returned",
                                !.result = RepoInfo(response.body, TRUE)]
             ELSE IF FALSE
             THEN [frame EXCEPT !.pc = "raised",
                                !.error = GitHubAPIError(response.status)]
             ELSE IF Truthy(args.owner)
             THEN [frame EXCEPT !.pc = "GET repo",
                                !.resolved_owner = args.owner[1]]
             ELSE [frame EXCEPT !.pc = "GET user"]
        ELSE IF frame.pc = "GET user"
        THEN IF response.kind # "ok"
             THEN [frame EXCEPT !.pc = "raised",
                                !.error = GitHubAPIError(response.status)]
             ELSE IF \/ "login" \notin DOMAIN response.body
                     \/ response.body.login = ""
             THEN [frame EXCEPT !.pc = "raised", !.error = RuntimeError]
             ELSE [frame EXCEPT !.pc = "GET repo",
                                !.resolved_owner = response.body.login]
        ELSE IF frame.pc = "GET repo"
        THEN IF response.kind # "ok"
             THEN [frame EXCEPT !.pc = "raised",
                                !.error = GitHubAPIError(response.status)]
             ELSE [frame EXCEPT !.pc = "returned",
                                !.result = RepoInfo(response.body, FALSE)]
        ELSE frame

\* ensure_repository from the response to the request it issued to its next
\* request, its return or its raise.
ensure_repository(frame, response) ==
    LET args == frame.args
    IN  IF frame.pc = "POST"
        THEN IF response.kind = "ok"
             THEN [frame EXCEPT !.pc = "returned",
                                !.result = RepoInfo(response.body, TRUE)]
             ELSE IF response.status # 422
             THEN [frame EXCEPT !.pc = "raised",
                                !.error = GitHubAPIError(response.status)]
             ELSE IF Truthy(args.owner)
             THEN [frame EXCEPT !.pc = "GET repo",
                                !.resolved_owner = args.owner[1]]
             ELSE [frame EXCEPT !.pc = "GET user"]
        ELSE IF frame.pc = "GET user"
        THEN IF response.kind # "ok"
             THEN [frame EXCEPT !.pc = "raised",
                                !.error = GitHubAPIError(response.status)]
             ELSE IF \/ "login" \notin DOMAIN response.body
                     \/ response.body.login = ""
             THEN [frame EXCEPT !.pc = "raised", !.error = RuntimeError]
             ELSE [frame EXCEPT !.pc = "GET repo",
                                !.resolved_owner = response.body.login]
        ELSE IF frame.pc = "GET repo"
        THEN IF response.kind # "ok"
             THEN [frame EXCEPT !.pc = "raised",
                                !.error = GitHubAPIError(response.status)]
             ELSE [frame EXCEPT !.pc = "returned",
                                !.result = RepoInfo(response.body, FALSE)]
        ELSE frame

----------------------------------------------------------------------------
\* The state: one ExpenseManager, and the last call made on it.

VARIABLES
    wallets,    \* ExpenseManager.wallets: lower-cased name -> Wallet
    order,      \* the insertion order of that dict's keys
    opened,     \* history: key -> the balance its wallet was created with
    loaded,     \* history: the data the manager was constructed from
    held,       \* the dict of currencies the caller got and holds
    call,       \* the last call: operation, arguments, outcome, result
    ensure,     \* ensure_repository: where it stands, its arguments, result
    requests,   \* the requests _api_request has sent, each with its answer
    file        \* the data file of the command line

vars == <<table, wallets, order, opened, loaded, held, call, ensure, requests,
          file>>

\* What the calls on the manager leave alone.
outside == <<table, loaded, held, ensure, requests, file>>

\* The inputs the calls are made with.
Names == {<<"P", "t">>, <<"p", "t">>, <<"T">>}
CreateCodes == {"EUR", "XXX"}
Codes == {"USD", "EUR", "GBP", "JPY", "AUD", "usd", "XXX", ""}
ReportTargets == {None, Some(""), Some("USD"), Some("JPY"), Some("XXX")}
Balances == {Zero, Flt(1010, 0)}
Amounts == {Flt(-5, 0), Zero, Flt(10, 0)}
ConvertAmounts == {Zero, Flt(1, 0), Flt(-5, 0), Flt(1010, 0), Flt(999, -2)}
Descriptions == {"Groceries"}
Categories == {"food", ""}

\* The expenses recorded: the largest amount comes without a category.
ExpenseArgs ==
    {a \in [description : Descriptions, amount : Amounts,
            category : Categories] :
        a.category = "" <=> a.amount = Flt(10, 0)}

NoCall == [op |-> "none", args |-> <<>>, outcome |-> Ok, result |-> NoResult]

\* The caller holds no dict.
NoDict == <<>>

\* ensure_repository has not been called.
NotCalled == [pc |-> "idle"]

\* The snapshots a manager is built from.
WalletEntries ==
    {[name |-> <<"P", "t">>, currency |-> "USD", balance |-> Flt(1010, 0),
      expenses |-> <<[description |-> "Groceries", amount |-> Flt(10, 0),
                      category |-> "food"]>>],
     [name |-> <<"p", "t">>, currency |-> "XXX"],
     [name |-> <<"T">>, currency |-> "EUR", balance |-> Zero,
      expenses |-> <<[description |-> "Hotel", amount |-> Flt(-5, 0)]>>]}

Snapshots ==
    {None, [wallets |-> <<>>]}
        \cup {[wallets |-> <<e>>] : e \in WalletEntries}
        \cup {[wallets |-> <<e, f>>] : e, f \in WalletEntries}

\* ExpenseManager() with no data.
Init ==
    /\ table = SUPPORTED_CURRENCIES
    /\ wallets = ExpenseManager(None).wallets
    /\ order = ExpenseManager(None).order
    /\ opened = <<>>
    /\ loaded = None
    /\ held = NoDict
    /\ call = NoCall
    /\ ensure = NotCalled
    /\ requests = <<>>
    /\ file = Absent

\* ExpenseManager(data) with a snapshot.
InitSnapshot ==
    \E data \in Snapshots :
        /\ table = SUPPORTED_CURRENCIES
        /\ wallets = ExpenseManager(data).wallets
        /\ order = ExpenseManager(data).order
        /\ opened = <<>>
        /\ loaded = data
        /\ held = NoDict
        /\ call = NoCall
        /\ ensure = NotCalled
        /\ requests = <<>>
        /\ file = Absent

\* A run is a caller's: it goes on after a call that changed the registry.
\* A call that raises ends it (the callers of this repository handle no
\* exception: cli.py main), and a lookup or report is its last call.
Running ==
    /\ call.outcome = Ok
    /\ call.op \in {"none", "create_wallet", "add_expense"}

Recorded == LET n[i \in 0..Len(order)] ==
                    IF i = 0 THEN 0 ELSE n[i - 1] + Len(wallets[order[i]].expenses)
            IN  n[Len(order)]

CreateWallet(name, currency, balance) ==
    LET r == create_wallet(wallets, order, name, currency, balance)
    IN  /\ Running
        /\ wallets' = r.wallets
        /\ order' = r.order
        /\ opened' = IF r.outcome = Ok
                     THEN [k \in DOMAIN r.wallets \ DOMAIN wallets |-> balance]
                              @@ opened
                     ELSE opened
        /\ call' = [op |-> "create_wallet",
                    args |-> [name |-> name, currency |-> currency,
                              balance |-> balance],
                    outcome |-> r.outcome, result |-> r.result]
        /\ UNCHANGED outside

GetWallet(name) ==
    LET r == get_wallet(wallets, name)
    IN  /\ Running
        /\ call' = [op |-> "get_wallet", args |-> [name |-> name],
                    outcome |-> r.outcome,
                    result |-> IF r.outcome = Ok THEN wallets[r.key]
                               ELSE NoResult]
        /\ UNCHANGED <<wallets, order, opened>>
        /\ UNCHANGED outside

AddExpense(wallet_name, description, amount, category) ==
    LET r == add_expense(wallets, wallet_name, description, amount, category)
    IN  /\ Running
        /\ r.outcome = Ok => Recorded < MaxExpenses
        /\ wallets' = r.wallets
        /\ call' = [op |-> "add_expense",
                    args |-> [wallet_name |-> wallet_name,
                              description |-> description,
                              amount |-> amount, category |-> category],
                    outcome |-> r.outcome, result |-> r.result]
        /\ UNCHANGED <<order, opened>>
        /\ UNCHANGED outside

ConsolidatedDashboard(target_currency) ==
    LET r == consolidated_dashboard(wallets, order, target_currency)
    IN  /\ Running
        /\ call' = [op |-> "consolidated_dashboard",
                    args |-> [target_currency |-> target_currency],
                    outcome |-> r.outcome, result |-> r.result]
        /\ UNCHANGED <<wallets, order, opened>>
        /\ UNCHANGED outside

WalletReport(wallet_name, target_currency) ==
    LET r == wallet_report(wallets, wallet_name, target_currency)
    IN  /\ Running
        /\ call' = [op |-> "wallet_report",
                    args |-> [wallet_name |-> wallet_name,
                              target_currency |-> target_currency],
                    outcome |-> r.outcome, result |-> r.result]
        /\ UNCHANGED <<wallets, order, opened>>
        /\ UNCHANGED outside

Next ==
    \/ \E name \in Names, currency \in CreateCodes, balance \in Balances :
          CreateWallet(name, currency, balance)
    \/ \E name \in Names : GetWallet(name)
    \/ \E name \in Names, a \in ExpenseArgs :
          AddExpense(name, a.description, a.amount, a.category)
    \/ \E target \in Codes : ConsolidatedDashboard(target)
    \/ \E name \in Names, target \in ReportTargets :
          WalletReport(name, target)

Spec == Init /\ [][Next]_vars

SpecSnapshot == InitSnapshot /\ [][Next]_vars

\* The currency table on its own: validate_currency and convert called
\* with every code and amount of the input sets.
ValidateCurrency(currency) ==
    /\ call' = [op |-> "validate_currency", args |-> [currency |-> currency],
                outcome |-> validate_currency(currency), result |-> NoResult]
    /\ UNCHANGED <<wallets, order, opened>>
    /\ UNCHANGED outside

Convert(amount, from_currency, to_currency) ==
    LET r == convert(amount, from_currency, to_currency)
    IN  /\ call' = [op |-> "convert",
                    args |-> [amount |-> amount,
                              from_currency |-> from_currency,
                              to_currency |-> to_currency],
                    outcome |-> r.outcome, result |-> r.value]
        /\ UNCHANGED <<wallets, order, opened>>
        /\ UNCHANGED outside

NextCurrency ==
    \/ \E currency \in Codes : ValidateCurrency(currency)
    \/ \E amount \in ConvertAmounts, from_currency \in Codes,
          to_currency \in Codes :
          Convert(amount, from_currency, to_currency)

SpecCurrency == Init /\ [][NextCurrency]_vars

\* A caller that keeps the dict of currencies it was given, changes it as
\* any dict can be changed, and goes on calling.
TableCodes == {"USD", "EUR", "XXX"}
NewRates == {Flt(2, 0)}

ListSupportedCurrencies ==
    LET r == list_supported_currencies
    IN  /\ held' = r
        /\ call' = [op |-> "list_supported_currencies", args |-> <<>>,
                    outcome |-> Ok, result |-> r.items]
        /\ UNCHANGED <<table, wallets, order, opened, loaded, ensure, requests,
                     file>>

\* consolidated_dashboard by a caller that keeps the report's
\* supported_currencies.
KeepDashboard(target_currency) ==
    LET r == consolidated_dashboard(wallets, order, target_currency)
    IN  /\ held' = IF r.outcome = Ok THEN r.result.supported_currencies
                   ELSE held
        /\ call' = [op |-> "consolidated_dashboard",
                    args |-> [target_currency |-> target_currency],
                    outcome |-> r.outcome, result |-> r.result]
        /\ UNCHANGED <<table, wallets, order, opened, loaded, ensure, requests,
                     file>>

\* The held dict becomes items; so does the module's when it is that dict.
Store(items) ==
    /\ held' = [held EXCEPT !.items = items]
    /\ table' = IF held.shared THEN items ELSE table
    /\ call' = [op |-> "change", args |-> <<>>, outcome |-> Ok,
                result |-> NoResult]
    /\ UNCHANGED <<wallets, order, opened, loaded, ensure, requests, file>>

\* d[code] = rate on the held dict: an entry added or changed.
SetItem(code, rate) ==
    /\ held # NoDict
    /\ Store((code :> rate) @@ held.items)

\* del d[code] on the held dict.
DelItem(code) ==
    /\ held # NoDict
    /\ code \in DOMAIN held.items
    /\ Store([c \in DOMAIN held.items \ {code} |-> held.items[c]])

NextTable ==
    \/ ListSupportedCurrencies
    \/ \E target \in TableCodes : KeepDashboard(target)
    \/ \E code \in TableCodes, rate \in NewRates : SetItem(code, rate)
    \/ \E code \in TableCodes : DelItem(code)
    \/ \E currency \in TableCodes : ValidateCurrency(currency)
    \/ \E amount \in {Flt(1, 0)}, from_currency \in TableCodes,
          to_currency \in TableCodes :
          Convert(amount, from_currency, to_currency)

SpecTable == InitSnapshot /\ [][NextTable]_vars

\* The upload script's ensure_repository against a GitHub that answers as
\* it likes: a repository request that succeeds answers with the
\* repository's document, /user with the user's, with or without a login.
Repos == {"demo", "app"}
Owners == {None, Some(""), Some("org")}
Statuses == {401, 404, 422, 500}
Login == "octo"

Document(owner, repo) ==
    [name |-> repo, full_name |-> <<owner, repo>>,
     clone_url |-> <<"https://github.com", owner, repo>>]

Pending == [kind |-> "pending"]

\* The answers GitHub can give to a request.
Answers(request) ==
    {ApiError(status) : status \in Statuses} \cup
    (IF request.path = <<"user">>
     THEN {ApiOk([login |-> Login]), ApiOk(<<>>)}
     ELSE IF request.method = "POST"
     THEN {ApiOk(Document(IF request.path[1] = "orgs" THEN request.path[2]
                          ELSE Login,
                          request.payload.name))}
     ELSE {ApiOk(Document(request.path[2], request.path[3]))})

\* Every answer of GitHub to any request.
AllAnswers ==
    {ApiError(status) : status \in Statuses}
        \cup {ApiOk([login |-> Login]), ApiOk(<<>>)}
        \cup {ApiOk(Document(owner, repo)) :
                 owner \in {Login, "org"}, repo \in Repos}

Sent(request) == [request |-> request, response |-> Pending]

\* ensure_repository is called and sends its first request.
EnsureRepository(repo, owner, private) ==
    /\ ensure.pc = "idle"
    /\ call = NoCall
    /\ ensure' = EnsureFrame(repo, owner, private)
    /\ requests' = <<Sent(ensure_request(EnsureFrame(repo, owner, private)))>>
    /\ UNCHANGED <<table, wallets, order, opened, loaded, held, call, file>>

\* _api_request returns or raises, and ensure_repository runs on to its
\* next request or to its end.
ApiResponds(response) ==
    LET n == Len(requests)
        next == ensure_repository(ensure, response)
        answered == [requests EXCEPT ![n].response = response]
    IN  /\ ensure.pc \in {"POST", "GET user", "GET repo"}
        /\ response \in Answers(requests[n].request)
        /\ ensure' = next
        /\ requests' = IF next.pc \in {"returned", "raised"} THEN answered
                       ELSE Append(answered, Sent(ensure_request(next)))
        /\ UNCHANGED <<table, wallets, order, opened, loaded, held, call, file>>

NextUpload ==
    \/ \E repo \in Repos, owner \in Owners, private \in BOOLEAN :
          EnsureRepository(repo, owner, private)
    \/ \E response \in AllAnswers : ApiResponds(response)

SpecUpload == Init /\ [][NextUpload]_vars

\* The command line, one command after another on one data file that is
\* absent at first, or was written before with or without every field.
CliNames == {<<"P", "t">>, <<"T">>}
CliCodes == {"USD", "usd", "XXX"}
CliFiles == {Absent} \cup {save_data([wallets |-> <<e>>]) : e \in WalletEntries}

\* The expenses the data file holds.
Filed ==
    LET listed == load_data(file).wallets
        n[i \in 0..Len(listed)] ==
            IF i = 0 THEN 0
            ELSE n[i - 1] + (IF "expenses" \in DOMAIN listed[i]
                             THEN Len(listed[i].expenses) ELSE 0)
    IN  n[Len(listed)]

InitCli ==
    /\ table = SUPPORTED_CURRENCIES
    /\ wallets = ExpenseManager(None).wallets
    /\ order = ExpenseManager(None).order
    /\ opened = <<>>
    /\ loaded = None
    /\ held = NoDict
    /\ call = NoCall
    /\ ensure = NotCalled
    /\ requests = <<>>
    /\ file \in CliFiles

\* The runs that follow a run that wrote nothing are those that could have
\* been made in its place: only a run that wrote the file is followed up.
Rerun == IF call.op = "none" THEN TRUE ELSE call.result.written

\* One run of main.
Main(args) ==
    \E r \in {main(file, args)} :
        /\ Rerun
        /\ (args.command = "add-expense" /\ r.outcome = Ok) =>
               Filed < MaxExpenses
        /\ file' = r.file
        /\ call' = [op |-> "main", args |-> args, outcome |-> r.outcome,
                    result |-> [printed |-> r.printed, read |-> r.read,
                                written |-> r.written]]
        /\ UNCHANGED <<table, wallets, order, opened, loaded, held, ensure,
                       requests>>

\* The namespaces parse_args hands to main, one set per subcommand.
CreateWalletArgs ==
    {[command |-> "create-wallet", name |-> n, currency |-> c, balance |-> b] :
        n \in CliNames, c \in CreateCodes, b \in Balances}

AddExpenseArgs ==
    {[command |-> "add-expense", wallet |-> n, amount |-> a.amount,
      description |-> a.description, category |-> a.category] :
        n \in CliNames, a \in ExpenseArgs}

DashboardArgs == {[command |-> "dashboard", currency |-> c] : c \in CliCodes}

PreviewArgs ==
    {[command |-> "preview", currency |-> c, demo |-> d] :
        c \in CliCodes, d \in BOOLEAN}

WalletReportArgs ==
    {[command |-> "wallet-report", wallet |-> n, currency |-> t] :
        n \in CliNames, t \in {None, Some("JPY")}}

NextCli ==
    \/ \E args \in CreateWalletArgs : Main(args)
    \/ \E args \in AddExpenseArgs : Main(args)
    \/ Main([command |-> "list-wallets"])
    \/ \E args \in DashboardArgs : Main(args)
    \/ \E args \in PreviewArgs : Main(args)
    \/ \E args \in WalletReportArgs : Main(args)
    \/ Main([command |-> "supported-currencies"])

SpecCli == InitCli /\ [][NextCli]_vars

----------------------------------------------------------------------------
\* Vocabulary of the properties

SupportedCodes == {"USD", "EUR", "GBP", "JPY", "AUD"}

\* Two names equal up to the case of their letters.
EqualIgnoringCase(a, b) ==
    /\ Len(a) = Len(b)
    /\ \A i \in DOMAIN a :
          \/ a[i] = b[i]
          \/ {a[i], b[i]} \in {{"P", "p"}, {"T", "t"}, {"S", "s"}}

Registered(name) ==
    \E k \in DOMAIN wallets : EqualIgnoringCase(wallets[k].name, name)

AmountsOf(wallet) == [i \in DOMAIN wallet.expenses |-> wallet.expenses[i].amount]

\* The exact value of a whole-number float, in units of 10^(1 - Prec).
Units(x) == x[1] * Pow10(x[2] + Prec - 1)

\* A float has exactly the value of n units: n has at most Prec digits
\* before its trailing zeros.
RECURSIVE Representable(_)
Representable(n) ==
    IF Abs(n) < Pow10(Prec) THEN TRUE
    ELSE n % 10 = 0 /\ Representable(n \div 10)

\* The exact sum of the first i amounts, in units.
RECURSIVE ExactSum(_, _)
ExactSum(amounts, i) ==
    IF i = 0 THEN 0 ELSE ExactSum(amounts, i - 1) + Units(amounts[i])

\* b with the first i amounts subtracted one at a time, each step rounded.
RECURSIVE SubtractedInOrder(_, _, _)
SubtractedInOrder(b, amounts, i) ==
    IF i = 0 THEN b
    ELSE FSub(SubtractedInOrder(b, amounts, i - 1), amounts[i])

\* No subtraction from b and no partial sum of the amounts rounds.
NothingRounds(b, amounts) ==
    \A i \in 0..Len(amounts) :
        /\ Representable(Units(b) - ExactSum(amounts, i))
        /\ Representable(ExactSum(amounts, i))

----------------------------------------------------------------------------
\* C1 as stated: every wallet made by create_wallet with balance b has, in
\* every reachable state, a balance equal to b minus the sum of its recorded
\* amounts, that sum being total_spent().  The difference is read either
\* way: as the exact one, or as the float b - total_spent().
C1_BalanceIsInitialMinusSum ==
    \A k \in DOMAIN opened :
        LET amounts == AmountsOf(wallets[k])
            spent == ExactSum(amounts, Len(amounts))
        IN  \/ /\ Units(wallets[k].balance) = Units(opened[k]) - spent
               /\ Units(total_spent(wallets[k])) = spent
            \/ wallets[k].balance = FSub(opened[k], total_spent(wallets[k]))

\* C1 amended: the balance is b with the recorded amounts subtracted one at
\* a time in insertion order, each subtraction rounded to a float; when no
\* subtraction and no partial sum rounds, the balance is exactly b minus the
\* sum of the amounts and total_spent() is exactly that sum.
C1_BalanceIsSubtractedInOrder ==
    \A k \in DOMAIN opened :
        LET amounts == AmountsOf(wallets[k])
            spent == ExactSum(amounts, Len(amounts))
        IN  /\ wallets[k].balance =
                   SubtractedInOrder(opened[k], amounts, Len(amounts))
            /\ NothingRounds(opened[k], amounts) =>
                   /\ Units(wallets[k].balance) = Units(opened[k]) - spent
                   /\ Units(total_spent(wallets[k])) = spent

\* A wallet opened with a balance holds an expense and a zero expense, and
\* nothing rounded.
C1_Witness ==
    \E k \in DOMAIN opened :
        /\ opened[k] # Zero
        /\ Len(wallets[k].expenses) = 2
        /\ wallets[k].expenses[1].amount = Flt(10, 0)
        /\ wallets[k].expenses[2].amount = Zero
        /\ NothingRounds(opened[k], AmountsOf(wallets[k]))
        /\ call.op = "add_expense"

\* C2: create_wallet with a name that equals a registered wallet's name up
\* to case raises WalletExistsError whatever the currency and balance given,
\* and leaves the registry and every wallet in it as they were.
C2_DuplicateNameRaisesWalletExists ==
    [][(call'.op = "create_wallet" /\ Registered(call'.args.name)) =>
          /\ call'.outcome = WalletExistsError
          /\ wallets' = wallets
          /\ order' = order]_vars

\* create_wallet was refused for a name that differs in case from the
\* registered one, with a currency that is not supported.
C2_Witness ==
    /\ call.op = "create_wallet"
    /\ call.outcome = WalletExistsError
    /\ call.args.currency = "XXX"
    /\ call.args.balance # Zero
    /\ \E k \in DOMAIN wallets :
          /\ wallets[k].name # call.args.name
          /\ EqualIgnoringCase(wallets[k].name, call.args.name)
          /\ Len(wallets[k].expenses) > 0

\* C3: create_wallet with a fresh name and a currency outside the
\* supported set raises CurrencyNotSupportedError and registers nothing:
\* the registry is as before, so get_wallet of that name then raises
\* WalletNotFoundError and create_wallet of that name with a supported
\* currency then succeeds.
C3_UnsupportedCurrencyRegistersNothing ==
    [][(/\ call'.op = "create_wallet"
        /\ ~Registered(call'.args.name)
        /\ call'.args.currency \notin SupportedCodes) =>
          /\ call'.outcome = CurrencyNotSupportedError
          /\ wallets' = wallets
          /\ order' = order
          /\ get_wallet(wallets', call'.args.name).outcome = WalletNotFoundError
          /\ \A c \in SupportedCodes :
                create_wallet(wallets', order', call'.args.name, c,
                              call'.args.balance).outcome = Ok]_vars

\* create_wallet was refused for its currency while another wallet was
\* registered.
C3_Witness ==
    /\ call.op = "create_wallet"
    /\ call.outcome = CurrencyNotSupportedError
    /\ ~Registered(call.args.name)
    /\ Len(order) = 1

\* C4: get_wallet and add_expense find the wallet whatever the case of the
\* name: they succeed exactly when a registered wallet's name equals the
\* name given up to case, and raise WalletNotFoundError otherwise; an
\* add_expense that raises records nothing and changes no balance.
C4_LookupIgnoresCase ==
    [][call'.op \in {"get_wallet", "add_expense"} =>
          LET name == IF call'.op = "get_wallet" THEN call'.args.name
                      ELSE call'.args.wallet_name
          IN  /\ call'.outcome = Ok <=> Registered(name)
              /\ ~Registered(name) =>
                    /\ call'.outcome = WalletNotFoundError
                    /\ wallets' = wallets
                    /\ order' = order
              /\ (call'.op = "get_wallet" /\ Registered(name)) =>
                    /\ EqualIgnoringCase(call'.result.name, name)
                    /\ call'.result \in {wallets[k] : k \in DOMAIN wallets}]_vars

\* add_expense succeeded under a name written in another case than the
\* wallet's own.
C4_Witness ==
    /\ call.op = "add_expense"
    /\ call.outcome = Ok
    /\ \E k \in DOMAIN wallets :
          /\ EqualIgnoringCase(wallets[k].name, call.args.wallet_name)
          /\ wallets[k].name # call.args.wallet_name
          /\ wallets[k].expenses[Len(wallets[k].expenses)] = call.result

\* The report a consolidated_dashboard call returned is the one C5
\* describes: each total is the wallets' converted figures added in registry
\* order, the net position is their difference, and the breakdown has one
\* entry for each registered wallet.
DashboardAddsUp ==
    LET t == call.args.target_currency
        r == call.result
        n == Len(order)
        BalanceIn(i) == convert(wallets[order[i]].balance,
                                wallets[order[i]].currency, t).value
        SpentIn(i) == convert(total_spent(wallets[order[i]]),
                              wallets[order[i]].currency, t).value
        balances[i \in 0..n] ==
            IF i = 0 THEN Zero ELSE FAdd(balances[i - 1], BalanceIn(i))
        spends[i \in 0..n] ==
            IF i = 0 THEN Zero ELSE FAdd(spends[i - 1], SpentIn(i))
    IN  /\ call.outcome = Ok
        /\ r.target_currency = t
        /\ r.total_balance = balances[n]
        /\ r.total_spent = spends[n]
        /\ r.net_position = FSub(r.total_balance, r.total_spent)
        /\ Len(r.wallets) = Cardinality(DOMAIN wallets)
        /\ \A k \in DOMAIN wallets :
              \E i \in DOMAIN r.wallets :
                  /\ r.wallets[i].name = wallets[k].name
                  /\ r.wallets[i].currency = wallets[k].currency
                  /\ r.wallets[i].balance = wallets[k].balance
                  /\ r.wallets[i].total_spent = total_spent(wallets[k])
                  /\ \A j \in DOMAIN r.wallets :
                        r.wallets[j].name = wallets[k].name => j = i

\* C5 as stated: in every registry state, consolidated_dashboard with a
\* supported target returns a report whose totals are the sums of the
\* wallets' converted balances and converted spend, whose net position is
\* their difference, and which lists each registered wallet once.
C5_DashboardAddsUpInEveryState ==
    (call.op = "consolidated_dashboard"
        /\ call.args.target_currency \in SupportedCodes) => DashboardAddsUp

\* C5 amended: the same, in every registry state whose wallets all have a
\* supported currency (every state reached from an empty registry by
\* create_wallet and add_expense is one).
C5_DashboardAddsUp ==
    (/\ call.op = "consolidated_dashboard"
     /\ call.args.target_currency \in SupportedCodes
     /\ \A k \in DOMAIN wallets : wallets[k].currency \in SupportedCodes) =>
        DashboardAddsUp

\* A dashboard was returned for two wallets of different currencies, both
\* with recorded spend, in a third currency.
C5_Witness ==
    /\ call.op = "consolidated_dashboard"
    /\ call.outcome = Ok
    /\ Len(order) = 2
    /\ wallets[order[1]].currency # wallets[order[2]].currency
    /\ call.args.target_currency \notin
           {wallets[order[1]].currency, wallets[order[2]].currency}
    /\ \A k \in DOMAIN wallets : Len(wallets[k].expenses) > 0

\* C6: on a registry built from the empty one by create_wallet and
\* add_expense, consolidated_dashboard raises CurrencyNotSupportedError
\* exactly when the target is outside the supported set, and returns a
\* report otherwise.
C6_DashboardFailsIffTargetUnsupported ==
    call.op = "consolidated_dashboard" =>
        /\ call.outcome = CurrencyNotSupportedError <=>
               call.args.target_currency \notin SupportedCodes
        /\ call.args.target_currency \in SupportedCodes =>
               /\ call.outcome = Ok
               /\ call.result # NoResult

\* The dashboard of the empty registry was asked for in an unsupported
\* currency and refused.
C6_Witness ==
    /\ call.op = "consolidated_dashboard"
    /\ order = <<>>
    /\ call.args.target_currency = "XXX"
    /\ call.outcome = CurrencyNotSupportedError

\* The wallet a report names.
ReportedKey(name) ==
    CHOOSE k \in DOMAIN wallets : EqualIgnoringCase(wallets[k].name, name)

\* C7: wallet_report without a target returns the wallet's own currency as
\* target_currency, balance_in_target equal to the balance, and the expenses
\* in insertion order, each with amount_in_target equal to its amount.  It
\* returns whenever the wallet is registered and its currency is supported.
C7_ReportDefaultsToOwnCurrency ==
    (/\ call.op = "wallet_report"
     /\ call.args.target_currency = None
     /\ Registered(call.args.wallet_name)) =>
        LET wallet == wallets[ReportedKey(call.args.wallet_name)]
            r == call.result
        IN  /\ wallet.currency \in SupportedCodes => call.outcome = Ok
            /\ call.outcome = Ok =>
                  /\ r.target_currency = wallet.currency
                  /\ r.balance = wallet.balance
                  /\ r.balance_in_target = wallet.balance
                  /\ Len(r.expenses) = Len(wallet.expenses)
                  /\ \A i \in DOMAIN r.expenses :
                        /\ r.expenses[i].amount = wallet.expenses[i].amount
                        /\ r.expenses[i].amount_in_target =
                               wallet.expenses[i].amount
                        /\ r.expenses[i].description =
                               wallet.expenses[i].description

\* A report without a target was returned for a wallet in another currency
\* than the base one, holding two different expenses.
C7_Witness ==
    /\ call.op = "wallet_report"
    /\ call.args.target_currency = None
    /\ call.outcome = Ok
    /\ call.result.wallet_currency = "EUR"
    /\ Len(call.result.expenses) = 2
    /\ call.result.expenses[1].amount # call.result.expenses[2].amount

\* C8: wallet_report of a registered wallet with a target given, whatever
\* string it is, raises CurrencyNotSupportedError when that string is not a
\* supported code.
C8_GivenTargetIsValidated ==
    (/\ call.op = "wallet_report"
     /\ Registered(call.args.wallet_name)
     /\ call.args.target_currency # None
     /\ call.args.target_currency[1] \notin SupportedCodes) =>
        /\ call.outcome = CurrencyNotSupportedError
        /\ call.result = NoResult

\* C9: convert between a supported currency and itself returns the amount
\* itself, untouched by any rate.
C9_ConvertToSameCurrencyIsIdentity ==
    (/\ call.op = "convert"
     /\ call.args.from_currency = call.args.to_currency
     /\ call.args.from_currency \in SupportedCodes) =>
        /\ call.outcome = Ok
        /\ call.result = call.args.amount

\* An amount that a division and multiplication by the rate would change
\* was converted from JPY to JPY.
C9_Witness ==
    /\ call.op = "convert"
    /\ call.args.from_currency = "JPY"
    /\ call.args.to_currency = "JPY"
    /\ call.outcome = Ok
    /\ FMul(FDiv(call.args.amount, SUPPORTED_CURRENCIES.JPY),
            SUPPORTED_CURRENCIES.JPY) # call.args.amount

\* C10: validate_currency accepts exactly the five codes USD, EUR, GBP, JPY
\* and AUD as written, and convert raises CurrencyNotSupportedError whenever
\* its source or its target is not one of them, also when the two are equal.
C10_OnlyTheFiveCodesAreAccepted ==
    /\ call.op = "validate_currency" =>
          /\ call.outcome = Ok <=> call.args.currency \in SupportedCodes
          /\ call.outcome # Ok => call.outcome = CurrencyNotSupportedError
    /\ (/\ call.op = "convert"
        /\ \/ call.args.from_currency \notin SupportedCodes
           \/ call.args.to_currency \notin SupportedCodes) =>
          /\ call.outcome = CurrencyNotSupportedError
          /\ call.result = NoResult

\* convert was refused for an unsupported code given as both source and
\* target.
C10_Witness ==
    /\ call.op = "convert"
    /\ call.args.from_currency = "usd"
    /\ call.args.to_currency = "usd"
    /\ call.outcome = CurrencyNotSupportedError

\* The floats x and y differ by no more than four roundings can make them:
\* each rounding is off by at most half a unit in the last of Prec digits.
WithinRounding(x, y) ==
    LET e == IF x[2] < y[2] THEN x[2] ELSE y[2]
        X == x[1] * Pow10(x[2] - e)
        Y == y[1] * Pow10(y[2] - e)
    IN  Abs(X - Y) * Pow10(Prec) <= 21 * Abs(Y)

\* C11: convert between two supported currencies a and b returns
\* amount / rate[a] * rate[b] when they differ, and converting the result
\* back from b to a gives the amount again within rounding tolerance.
C11_RoundTripWithinTolerance ==
    (/\ call.op = "convert"
     /\ call.args.from_currency \in SupportedCodes
     /\ call.args.to_currency \in SupportedCodes) =>
        LET a == call.args.from_currency
            b == call.args.to_currency
            back == convert(call.result, b, a)
        IN  /\ call.outcome = Ok
            /\ a # b =>
                  call.result =
                      FMul(FDiv(call.args.amount, SUPPORTED_CURRENCIES[a]),
                           SUPPORTED_CURRENCIES[b])
            /\ back.outcome = Ok
            /\ WithinRounding(back.value, call.args.amount)

\* An amount was converted between two currencies other than the base one,
\* and the way back does not give exactly the amount.
C11_Witness ==
    /\ call.op = "convert"
    /\ call.outcome = Ok
    /\ call.args.from_currency = "GBP"
    /\ call.args.to_currency = "JPY"
    /\ convert(call.result, "JPY", "GBP").value # call.args.amount

\* What convert returns as long as the rates are the five of the table.
Converted(amount, a, b) ==
    IF a \notin SupportedCodes \/ b \notin SupportedCodes
    THEN [outcome |-> CurrencyNotSupportedError, value |-> NoResult]
    ELSE IF a = b THEN [outcome |-> Ok, value |-> amount]
    ELSE [outcome |-> Ok,
          value |-> FMul(FDiv(amount, SUPPORTED_CURRENCIES[a]),
                         SUPPORTED_CURRENCIES[b])]

\* C12: whatever a caller does to the dict it got from
\* list_supported_currencies or from a dashboard report, the module's table
\* keeps its five codes and rates, and every later validate_currency,
\* convert, list_supported_currencies and dashboard call answers from them.
C12_TableIsConstant ==
    /\ table = SUPPORTED_CURRENCIES
    /\ \A c \in Codes : validate_currency(c) = Ok <=> c \in SupportedCodes
    /\ call.op = "validate_currency" =>
          (call.outcome = Ok <=> call.args.currency \in SupportedCodes)
    /\ call.op = "convert" =>
          LET expected == Converted(call.args.amount, call.args.from_currency,
                                    call.args.to_currency)
          IN  /\ call.outcome = expected.outcome
              /\ call.result = expected.value
    /\ call.op = "list_supported_currencies" =>
          call.result = SUPPORTED_CURRENCIES
    /\ call.op = "consolidated_dashboard" =>
          /\ call.outcome = CurrencyNotSupportedError <=>
                 \/ call.args.target_currency \notin SupportedCodes
                 \/ \E k \in DOMAIN wallets :
                        wallets[k].currency \notin SupportedCodes
          /\ call.outcome = Ok =>
                 call.result.supported_currencies.items = SUPPORTED_CURRENCIES

\* The caller added a code to the dict it held, changed a rate and removed
\* a code, and validate_currency was then asked for the added code.
C12_Witness ==
    /\ held # NoDict
    /\ "XXX" \in DOMAIN held.items
    /\ "EUR" \notin DOMAIN held.items
    /\ "USD" \in DOMAIN held.items
    /\ held.items["USD"] # SUPPORTED_CURRENCIES["USD"]
    /\ call.op = "validate_currency"
    /\ call.args.currency = "XXX"
    /\ call.outcome = CurrencyNotSupportedError

\* C13: the manager built from to_dict() of a manager reached by
\* create_wallet and add_expense serializes to the same structure: the same
\* wallets in the same order, each with the same name, currency, balance
\* and expenses.
C13_SerializationRoundTrips ==
    LET data == to_dict(wallets, order)
        again == ExpenseManager(data)
        listed == list_wallets(again.wallets, again.order)
    IN  /\ to_dict(again.wallets, again.order) = data
        /\ Len(listed) = Len(order)
        /\ \A i \in DOMAIN order :
              /\ listed[i].name = wallets[order[i]].name
              /\ listed[i].currency = wallets[order[i]].currency
              /\ listed[i].balance = wallets[order[i]].balance
              /\ listed[i].expenses = wallets[order[i]].expenses

\* Two wallets are registered, the first holding two expenses that its
\* balance has been reduced by.
C13_Witness ==
    /\ Len(order) = 2
    /\ Len(wallets[order[1]].expenses) = 2
    /\ total_spent(wallets[order[1]]) # Zero
    /\ wallets[order[1]].balance # opened[order[1]]
    /\ to_dict(wallets, order).wallets[1].balance = wallets[order[1]].balance

\* The wallet entries of the snapshot the manager was constructed from.
LoadedEntries ==
    IF loaded = None THEN <<>>
    ELSE IF "wallets" \in DOMAIN loaded THEN loaded.wallets
    ELSE <<>>

\* Entry i is the last of the snapshot with its name, case ignored: the
\* registry keeps the wallet built from it.
Kept(i) ==
    \A j \in DOMAIN LoadedEntries :
        j > i => ~EqualIgnoringCase(LoadedEntries[j].name, LoadedEntries[i].name)

\* The wallet is the one the claim describes for the snapshot entry.
BuiltFrom(wallet, entry) ==
    LET given == IF "expenses" \in DOMAIN entry THEN entry.expenses ELSE <<>>
    IN  /\ wallet.name = entry.name
        /\ wallet.currency = entry.currency
        /\ wallet.balance =
               (IF "balance" \in DOMAIN entry THEN entry.balance ELSE Zero)
        /\ Len(wallet.expenses) = Len(given)
        /\ \A e \in DOMAIN given :
              /\ wallet.expenses[e].description = given[e].description
              /\ wallet.expenses[e].amount = given[e].amount
              /\ wallet.expenses[e].category =
                     (IF "category" \in DOMAIN given[e] THEN given[e].category
                      ELSE "uncategorized")

\* C14: right after construction from a snapshot, the wallet kept for each
\* entry has the entry's name, currency and expenses as given, balance 0
\* where the entry has none and category "uncategorized" where an expense
\* entry has none; and a successful add_expense returns and stores an
\* expense with exactly the description, amount and category it was given.
C14_SnapshotDefaultsAndGivenCategory ==
    /\ call.op = "none" =>
          \A i \in DOMAIN LoadedEntries :
              Kept(i) =>
                  \E k \in DOMAIN wallets :
                      BuiltFrom(wallets[k], LoadedEntries[i])
    /\ (call.op = "add_expense" /\ call.outcome = Ok) =>
          LET wallet == wallets[ReportedKey(call.args.wallet_name)]
              given == [description |-> call.args.description,
                        amount |-> call.args.amount,
                        category |-> call.args.category]
          IN  /\ call.result = given
              /\ wallet.expenses[Len(wallet.expenses)] = given

\* A manager built from a snapshot with an entry that has no balance and an
\* expense entry that has no category was given an expense with an empty
\* category for the wallet of the latter.
C14_Witness ==
    /\ Len(LoadedEntries) = 2
    /\ "balance" \notin DOMAIN LoadedEntries[2]
    /\ "expenses" \in DOMAIN LoadedEntries[1]
    /\ "category" \notin DOMAIN LoadedEntries[1].expenses[1]
    /\ Len(order) = 2
    /\ wallets[order[2]].balance = Zero
    /\ call.op = "add_expense"
    /\ call.outcome = Ok
    /\ call.args.category = ""
    /\ wallets[order[1]].expenses =
           <<Expense("Hotel", Flt(-5, 0), "uncategorized"),
             Expense(call.args.description, call.args.amount, "")>>

\* The answer to the POST that ensure_repository sent first.
PostAnswer == requests[1].response

\* The owner the repository is looked up under: the one given or, when none
\* is, the login that GET /user answered with.
LookedUpUnder ==
    IF ensure.args.owner # None /\ ensure.args.owner[1] # ""
    THEN ensure.args.owner[1]
    ELSE Login

\* C15: ensure_repository sends the POST first and nothing but GETs after
\* it.  When the POST succeeds it returns created = TRUE with no further
\* request; when the POST fails with another status than 422 it raises that
\* error with no further request; a GET is sent, and created = FALSE
\* returned, only after the POST failed with 422, the repository being read
\* with GET /repos/{owner or authenticated user}/{repo}.
C15_PostFirstThenGetOn422 ==
    ensure.pc # "idle" =>
        /\ Len(requests) >= 1
        /\ requests[1].request.method = "POST"
        /\ requests[1].request.payload.name = ensure.args.repo
        /\ \A i \in DOMAIN requests :
              i > 1 => /\ requests[i].request.method = "GET"
                       /\ PostAnswer = ApiError(422)
        /\ PostAnswer.kind = "ok" =>
              /\ ensure.pc = "returned"
              /\ ensure.result.created = TRUE
              /\ ensure.result.name = ensure.args.repo
              /\ Len(requests) = 1
        /\ (PostAnswer.kind = "error" /\ PostAnswer.status # 422) =>
              /\ ensure.pc = "raised"
              /\ ensure.error = GitHubAPIError(PostAnswer.status)
              /\ Len(requests) = 1
        /\ PostAnswer = ApiError(422) =>
              /\ Len(requests) >= 2
              /\ ensure.pc = "returned" => ensure.result.created = FALSE
        /\ (ensure.pc = "returned" /\ ensure.result.created = FALSE) =>
              /\ PostAnswer = ApiError(422)
              /\ requests[Len(requests)].request =
                     ApiRequest("GET",
                                <<"repos", LookedUpUnder, ensure.args.repo>>,
                                NoResult)
              /\ requests[Len(requests)].response.kind = "ok"
        /\ \A i \in DOMAIN requests :
              (i > 1 /\ requests[i].request.path # <<"user">>) =>
                  /\ requests[i].request.path =
                         <<"repos", LookedUpUnder, ensure.args.repo>>
                  /\ i = Len(requests)

\* Called without an owner, ensure_repository was refused the POST with
\* 422, asked for the user, read the repository and returned.
C15_Witness ==
    /\ ensure.pc = "returned"
    /\ ensure.args.owner = None
    /\ Len(requests) = 3
    /\ requests[1].response = ApiError(422)
    /\ requests[3].request.path = <<"repos", Login, ensure.args.repo>>
    /\ ensure.result.created = FALSE

\* C16: a run of main leaves the data file as it was unless the command is
\* create-wallet or add-expense and the manager's operation succeeded, in
\* which case the file holds the manager's wallets; no other command and no
\* failing command writes it, and preview --demo neither reads it nor
\* creates it.
C16_OnlySuccessfulMutationsWrite ==
    [][call'.op = "main" =>
          LET mutation == call'.args.command \in {"create-wallet", "add-expense"}
          IN  /\ (call'.result.written \/ file' # file) =>
                    (mutation /\ call'.outcome = Ok)
              /\ (mutation /\ call'.outcome = Ok) =>
                    /\ call'.result.written
                    /\ file'.exists
                    /\ \E i \in DOMAIN file'.data.wallets :
                          EqualIgnoringCase(
                              file'.data.wallets[i].name,
                              IF call'.args.command = "create-wallet"
                              THEN call'.args.name ELSE call'.args.wallet)
              /\ (call'.args.command = "preview" /\ call'.args.demo) =>
                    /\ ~call'.result.read
                    /\ file' = file]_vars

\* add-expense failed for a wallet that is not there while the data file
\* did not exist, and no file was made.
C16_Witness ==
    /\ call.op = "main"
    /\ call.args.command = "add-expense"
    /\ call.outcome = WalletNotFoundError
    /\ file = Absent

\* C17: a successful add_expense appends one record with the description,
\* amount and category given to the expenses of the wallet named, takes the
\* amount off that wallet's balance, and changes nothing else: not the
\* wallet's name or currency, not the keys or their order, no other wallet.
C17_AddExpenseChangesOneWallet ==
    [][(call'.op = "add_expense" /\ call'.outcome = Ok) =>
          \E k \in DOMAIN wallets :
              /\ EqualIgnoringCase(wallets[k].name, call'.args.wallet_name)
              /\ wallets'[k].expenses =
                     Append(wallets[k].expenses,
                            [description |-> call'.args.description,
                             amount |-> call'.args.amount,
                             category |-> call'.args.category])
              /\ wallets'[k].balance =
                     FSub(wallets[k].balance, call'.args.amount)
              /\ wallets'[k].name = wallets[k].name
              /\ wallets'[k].currency = wallets[k].currency
              /\ DOMAIN wallets' = DOMAIN wallets
              /\ order' = order
              /\ \A j \in DOMAIN wallets : j # k => wallets'[j] = wallets[j]]_vars

\* An expense was added to a wallet that held another one already, while a
\* second wallet with a balance of its own was registered.
C17_Witness ==
    /\ call.op = "add_expense"
    /\ call.outcome = Ok
    /\ Len(order) = 2
    /\ \E k, j \in DOMAIN wallets :
          /\ k # j
          /\ Len(wallets[k].expenses) = 2
          /\ wallets[k].expenses[2] = call.result
          /\ wallets[k].expenses[1] # wallets[k].expenses[2]
          /\ wallets[j].balance # Zero

\* The snapshot entries that are the first of their name, case ignored, in
\* the order of the snapshot: each registers a key.
FirstOfName ==
    LET firsts[i \in 0..Len(LoadedEntries)] ==
            IF i = 0 THEN <<>>
            ELSE IF \E j \in 1..(i - 1) :
                       EqualIgnoringCase(LoadedEntries[j].name,
                                         LoadedEntries[i].name)
                 THEN firsts[i - 1]
                 ELSE Append(firsts[i - 1], LoadedEntries[i].name)
    IN  firsts[Len(LoadedEntries)]

\* Every key is its wallet's name in lower case, no two wallets have names
\* equal up to case, and list_wallets() has each wallet once.
RegistryIsKeyedByLowerCase ==
    LET listed == list_wallets(wallets, order)
    IN  /\ \A k \in DOMAIN wallets :
              /\ EqualIgnoringCase(k, wallets[k].name)
              /\ \A i \in DOMAIN k : k[i] \notin {"P", "T", "S"}
        /\ \A k, j \in DOMAIN wallets :
              EqualIgnoringCase(wallets[k].name, wallets[j].name) => k = j
        /\ Len(listed) = Cardinality(DOMAIN wallets)
        /\ \A k \in DOMAIN wallets :
              \E i \in DOMAIN listed :
                  /\ listed[i] = wallets[k]
                  /\ \A j \in DOMAIN listed : listed[j] = wallets[k] => j = i

\* C18: after construction from any snapshot and any create_wallet and
\* add_expense calls, every key is the lower-cased name of its wallet, no two
\* wallets have names equal ignoring case, and list_wallets() yields each
\* wallet once in the order the keys were first registered: the snapshot's
\* first entries of each name in snapshot order, then each wallet made by
\* create_wallet after those before it.
C18_KeysLowerCasedAndListedInOrder ==
    /\ [](/\ RegistryIsKeyedByLowerCase
          /\ call.op = "none" =>
                /\ Len(order) = Len(FirstOfName)
                /\ \A i \in DOMAIN order :
                      EqualIgnoringCase(order[i], FirstOfName[i]))
    /\ [][IF call'.op = "create_wallet" /\ call'.outcome = Ok
           THEN /\ Len(order') = Len(order) + 1
                /\ SubSeq(order', 1, Len(order)) = order
                /\ wallets'[order'[Len(order')]] = call'.result
                /\ call'.result.name = call'.args.name
           ELSE order' = order]_vars

\* Built from a snapshot of two wallets whose names differ only in case, the
\* manager keeps the second, and another wallet was created after it.
C18_Witness ==
    /\ Len(LoadedEntries) = 2
    /\ LoadedEntries[1].name # LoadedEntries[2].name
    /\ EqualIgnoringCase(LoadedEntries[1].name, LoadedEntries[2].name)
    /\ call.op = "create_wallet"
    /\ call.outcome = Ok
    /\ Len(order) = 2
    /\ wallets[order[1]].name = LoadedEntries[2].name
    /\ wallets[order[1]].currency = LoadedEntries[2].currency

====
